---- MODULE Spec2Model ----
(***************************************************************************)
(* Model of the spam-detection Discord bot:                                *)
(*   cogs/moderation.py     - ModerationCog (message pipeline)             *)
(*   utils/dataset_logger.py - DatasetLogger (CSV dataset of flagged msgs) *)
(*   utils/stats_tracker.py  - StatsTracker (session + persisted counters) *)
(*                                                                         *)
(* Text is modelled as a sequence of tokens (strings), so that prefix      *)
(* tests, slices and number formatting are computed and not assumed.       *)
(* Three specifications share the variables:                               *)
(*   Spec        - the moderation pipeline, handlers interleaving at awaits*)
(*   DatasetSpec - the dataset store on its own (init, append, stats)      *)
(*   StatsSpec   - the stats tracker and its JSON file across restarts     *)
(***************************************************************************)
EXTENDS Integers, Sequences, FiniteSets, TLC

VARIABLES
    \* ---- moderation pipeline (cogs/moderation.py) ----
    pc,          \* per message: position of its on_message handler
    msg,         \* per message: the discord.Message delivered (NoMsg before)
    verdict,     \* per message: what scam_detector.detect returned / raised
    calls,       \* per message: the effects invoked, in order
    results,     \* per message: outcome of each effect so far
    auditMsg,    \* per message: the arguments of log_channel.send (NoAudit if none)
    logChannel,  \* bot.get_channel(Config.LOG_CHANNEL_ID) resolves
    modRole,     \* guild.get_role(Config.MODERATOR_ROLE_ID) resolves
    \* ---- dataset store (utils/dataset_logger.py) ----
    csvFile,     \* data/flagged_messages_dataset.csv: Absent or its rows
    appended,    \* history: rows written by successful appends
    dstats,      \* last value returned by get_dataset_stats
    statsAt,     \* history: successful appends made when it was read
    CSV_LOCK,    \* the module's Lock: 0 when free, else the thread holding it
    writers,     \* per thread calling log_flagged_message: its position in
                 \* lines 112-118, the appends it completed and those that failed
    \* ---- stats tracker (utils/stats_tracker.py) ----
    statsFile,   \* data/bot_stats.json: Absent, Corrupt or a record
    tracker,     \* the StatsTracker object (NoTracker before construction)
    now,         \* the clock read by datetime.now
    accuracy,    \* the last value get_overall_accuracy_estimate returned, with its inputs
    threads,     \* per thread calling increment_false_alarm: its position, the value
                 \* it read for += 1, and the calls it completed
    lastOp,      \* history: the last two StatsTracker operations, their I/O outcomes
    persisted    \* history: first_started value first written to the file

vars == <<pc, msg, verdict, calls, results, auditMsg, logChannel, modRole,
          csvFile, appended, dstats, statsAt, CSV_LOCK, writers, statsFile, tracker, now, accuracy, threads, lastOp, persisted>>

pipeVars  == <<pc, msg, verdict, calls, results, auditMsg, logChannel, modRole>>
dataVars  == <<csvFile, appended, dstats, statsAt, CSV_LOCK, writers>>
statsVars == <<statsFile, tracker, now, accuracy, threads, lastOp, persisted>>

(***************************************************************************)
(* Bounds of the model.                                                    *)
(***************************************************************************)
NumMsgs  == 2      \* messages delivered to the pipeline
MaxRows  == 3      \* appends performed in DatasetSpec
MaxCount == 2      \* increments of each counter in StatsSpec
MaxTime  == 1      \* clock ticks in StatsSpec
NumThreads == 2    \* threads sharing one tracker in RaceSpec
MaxTotal == 9      \* largest counter value handed to the accuracy estimate

Msgs == 1..NumMsgs

(***************************************************************************)
(* Text helpers.                                                           *)
(***************************************************************************)
Min(a, b) == IF a < b THEN a ELSE b

DigitTok(d) == <<"0", "1", "2", "3", "4", "5", "6", "7", "8", "9">>[d + 1]

\* str(n) for a non-negative int: its decimal digits.
RECURSIVE Str(_)
Str(n) == IF n < 10 THEN <<DigitTok(n)>>
          ELSE Str(n \div 10) \o <<DigitTok(n % 10)>>

\* n as exactly w digits, zero padded (the fraction part of a format).
RECURSIVE Pad(_, _)
Pad(n, w) == IF w = 0 THEN <<>>
             ELSE Pad(n \div 10, w - 1) \o <<DigitTok(n % 10)>>

\* seq.count(x)
Count(seq, x) == Cardinality({i \in 1..Len(seq) : seq[i] = x})

\* str.startswith
StartsWith(s, p) == Len(s) >= Len(p) /\ SubSeq(s, 1, Len(p)) = p

\* s[:n]
Prefix(s, n) == SubSeq(s, 1, Min(Len(s), n))

\* Confidence is a float in [0, 1]; the model carries it in units of 1e-5
\* (99996 is 0.99996).
\* f"{confidence:.4f}": rounded to four decimals.
Fmt4f(c) ==
    LET r == (c + 5) \div 10
    IN  Str(r \div 10000) \o <<".">> \o Pad(r % 10000, 4)

\* f"{confidence:.2%}": a percentage rounded to two decimals.
Fmt2pct(c) ==
    LET r == (c + 5) \div 10
    IN  Str(r \div 100) \o <<".">> \o Pad(r % 100, 2) \o <<"%">>

\* strftime("%Y-%m-%d %H:%M:%S %Z") of an instant of the model's clock.
FmtTime(t) == <<"T">> \o Str(t)

(***************************************************************************)
(* Inputs: authors, message texts, detector verdicts.                      *)
(***************************************************************************)
NoGuild == [present |-> FALSE, id |-> 0, name |-> <<"DM">>]
Guild   == [present |-> TRUE, id |-> 77, name |-> <<"srv">>]
Channel == [id |-> 55, name |-> <<"general">>]

\* message.author: a discord.Member (roles, joined_at) or a plain discord.User,
\* which carries no roles; bot marks the system's own automated identity.
BotAuthor   == [id |-> 1, name |-> <<"bot">>, bot |-> TRUE,  member |-> TRUE,
                roles |-> {"Member"}, joined |-> 10]
StaffAuthor == [id |-> 2, name |-> <<"mod">>, bot |-> FALSE, member |-> TRUE,
                roles |-> {"Member", "Moderator"}, joined |-> 11]
PlainAuthor == [id |-> 3, name |-> <<"eve">>, bot |-> FALSE, member |-> TRUE,
                roles |-> {"Member"}, joined |-> 12]
UserAuthor  == [id |-> 4, name |-> <<"dan">>, bot |-> FALSE, member |-> FALSE,
                roles |-> {}, joined |-> 0]
Authors == {BotAuthor, StaffAuthor, PlainAuthor, UserAuthor}

\* message.content: empty, a command, and a text holding the prefix later on.
Contents == { <<>>, <<"!", "check">>, <<"win", "!", "nitro">> }

\* A message of a guild member is a guild message; a plain user's is a DM.
Message(i, content, author) ==
    [id |-> i, content |-> content, author |-> author,
     guild |-> IF author.member THEN Guild ELSE NoGuild,
     channel |-> Channel, created_at |-> i]

NoMsg == Message(0, <<>>, UserAuthor)

\* scam_detector.detect is external: it raises, or returns (is_scam, confidence, reason).
NoVerdict == [kind |-> "none",   confidence |-> 0,     reason |-> <<>>]
Verdicts  == { [kind |-> "raised", confidence |-> 0,     reason |-> <<>>],
               [kind |-> "clean",  confidence |-> 12344, reason |-> <<>>],
               [kind |-> "scam",   confidence |-> 99996, reason |-> <<"ML Detection">>],
               [kind |-> "scam",   confidence |-> 85004, reason |-> <<"Pattern Detection">>] }

(***************************************************************************)
(* utils/dataset_logger.py                                                 *)
(***************************************************************************)
Absent == [exists |-> FALSE, rows |-> <<>>]

HeaderRow ==
    << <<"timestamp">>, <<"user_id">>, <<"username">>, <<"user_discriminator">>,
       <<"guild_id">>, <<"guild_name">>, <<"channel_id">>, <<"channel_name">>,
       <<"message_content">>, <<"confidence">>, <<"detection_reason">>,
       <<"user_joined_at">>, <<"message_id">> >>

\* Mutant: the header is written with open(..., 'w') whether or not the file
\* is there.
M_InitializeCsv(file, io) ==
    IF io = "ok" THEN [exists |-> TRUE, rows |-> <<HeaderRow>>]
    ELSE IF io = "fail_write" THEN [exists |-> TRUE, rows |-> <<>>]
    ELSE file

\* _initialize_csv: io is "ok", "fail_open" (mkdir or open raised) or
\* "fail_write" (the file was created, writing the header raised).
\* Every exception is swallowed.
InitializeCsv(file, io) ==
    IF file.exists THEN file
    ELSE IF io = "ok" THEN [exists |-> TRUE, rows |-> <<HeaderRow>>]
    ELSE IF io = "fail_write" THEN [exists |-> TRUE, rows |-> <<>>]
    ELSE file

\* The row log_flagged_message builds (lines 92-108).
Row(message, confidence, reason, user_joined_at, t) ==
    << FmtTime(t),
       Str(message.author.id),
       message.author.name,
       <<"0">>,
       IF message.guild.present THEN Str(message.guild.id) ELSE <<"DM">>,
       IF message.guild.present THEN message.guild.name ELSE <<"DM">>,
       Str(message.channel.id),
       message.channel.name,
       message.content,
       Fmt4f(confidence),
       reason,
       user_joined_at,
       Str(message.id) >>

\* log_flagged_message: open(..., 'a') creates the file when it is absent and
\* writes no header; any exception is swallowed and leaves the file as it was.
LogFlaggedMessage(file, message, confidence, reason, user_joined_at, t, io) ==
    IF io = "ok"
    THEN [exists |-> TRUE,
          rows |-> Append(file.rows, Row(message, confidence, reason, user_joined_at, t))]
    ELSE file

\* csv.DictReader: the first row gives the field names, the others are records.
DictRows(file) == IF Len(file.rows) = 0 THEN <<>> ELSE Tail(file.rows)

\* row.get(key, default) of a DictReader row under the field names.
RowGet(fieldnames, row, key, default) ==
    LET hits == {i \in 1..Len(fieldnames) : fieldnames[i] = key}
    IN  IF hits = {} THEN default
        ELSE row[CHOOSE i \in hits : \A j \in hits : j <= i]

NoStats == [exists |-> FALSE, total_messages |-> 0, detection_methods |-> <<>>]

\* get_dataset_stats (file_size, a byte count, is not modelled). The
\* breakdown is the dict method -> count, as a function on the methods seen.
GetDatasetStats(file, io) ==
    IF ~file.exists \/ io # "ok" THEN NoStats
    ELSE LET rows    == DictRows(file)
             method(i) == RowGet(file.rows[1], rows[i], <<"detection_reason">>, <<"Unknown">>)
             methods == {method(i) : i \in 1..Len(rows)}
         IN  [exists |-> TRUE,
              total_messages |-> Len(rows),
              detection_methods |->
                  [k \in methods |-> Cardinality({i \in 1..Len(rows) : method(i) = k})]]

(***************************************************************************)
(* cogs/moderation.py: ModerationCog                                       *)
(***************************************************************************)
whitelisted_roles == {"Admin", "Moderator", "executive", "chat revive ping"}

\* self.bot.command_prefix
command_prefix == <<"!">>

\* Longest excerpt of the message content the audit embed carries.
ExcerptLen == 1024

NoResults == [append |-> "none", delete |-> "none", dm |-> "none", audit |-> "none"]
NoAudit   == [sent |-> FALSE]

\* Mutant: all() where the code has any().
M_IsWhitelisted(author) ==
    author.member /\ \A role \in author.roles : role \in whitelisted_roles

\* any(role in self.whitelisted_roles for role in user_roles), for a Member only.
IsWhitelisted(author) ==
    author.member /\ \E role \in author.roles : role \in whitelisted_roles

\* The three early returns of on_message (lines 36-52).
\* Mutant: messages of bots are handled like any other.
M_IgnoredNoBot(message) ==
    \/ StartsWith(message.content, command_prefix)
    \/ IsWhitelisted(message.author)

\* Mutant: commands are handled like any other text.
M_IgnoredNoPrefix(message) ==
    \/ message.author.bot
    \/ IsWhitelisted(message.author)

Ignored(message) ==
    \/ message.author.bot
    \/ StartsWith(message.content, command_prefix)
    \/ IsWhitelisted(message.author)

\* joined_at of _handle_scam_message (lines 89-91).
JoinedAt(message) ==
    IF message.author.member /\ message.author.joined # 0
    THEN FmtTime(message.author.joined) ELSE <<"Unknown">>

\* The arguments of log_channel.send built by _send_log (lines 187-236).
AuditFor(message, v, role, t) ==
    [sent |-> TRUE,
     content |-> IF role THEN <<"@mods", "Spam detected!">> ELSE <<"Spam detected!">>,
     user |-> message.author.name,
     user_id |-> Str(message.author.id),
     joined |-> JoinedAt(message),
     method |-> v.reason,
     confidence |-> Fmt2pct(v.confidence),
     channel |-> message.channel.name,
     message_sent |-> FmtTime(message.created_at),
     detected_at |-> FmtTime(t),
     excerpt |-> IF message.content # <<>> THEN Prefix(message.content, ExcerptLen)
                 ELSE <<"*No content*">>,
     footer |-> <<"User notified via DM | Logged to training dataset">>]

\* _send_log up to its await (lines 179-236), entered with calls c and results r
\* of message m: no channel -> return; no guild -> message.guild.get_role
\* raises and is caught; otherwise log_channel.send is invoked.
SendLog(m, c, r) ==
    IF ~logChannel
    THEN /\ pc' = [pc EXCEPT ![m] = "done"]
         /\ calls' = c
         /\ results' = r
         /\ auditMsg' = auditMsg
    ELSE IF ~msg[m].guild.present
    THEN /\ pc' = [pc EXCEPT ![m] = "done"]
         /\ calls' = c
         /\ results' = [r EXCEPT ![m].audit = "error"]
         /\ auditMsg' = auditMsg
    ELSE /\ pc' = [pc EXCEPT ![m] = "audit"]
         /\ calls' = [c EXCEPT ![m] = Append(@, "audit")]
         /\ results' = r
         /\ auditMsg' = [auditMsg EXCEPT ![m] = AuditFor(msg[m], verdict[m], modRole, now)]

\* Mutant: message.delete is called before the dataset append.
M_HandleScam(m, message, v, io) ==
    /\ csvFile' = LogFlaggedMessage(csvFile, message, v.confidence, v.reason,
                                    JoinedAt(message), now, io)
    /\ appended' = IF io = "ok" THEN appended + 1 ELSE appended
    /\ calls' = [calls EXCEPT ![m] = <<"delete", "append">>]
    /\ results' = [results EXCEPT ![m].append = IF io = "ok" THEN "ok" ELSE "error"]
    /\ pc' = [pc EXCEPT ![m] = "deleting"]

\* Mutant: a failed dataset append ends the handler.
M_HandleScamAbort(m, message, v, io) ==
    /\ csvFile' = LogFlaggedMessage(csvFile, message, v.confidence, v.reason,
                                    JoinedAt(message), now, io)
    /\ appended' = IF io = "ok" THEN appended + 1 ELSE appended
    /\ calls' = [calls EXCEPT ![m] = IF io = "ok" THEN <<"append", "delete">>
                                     ELSE <<"append">>]
    /\ results' = [results EXCEPT ![m].append = IF io = "ok" THEN "ok" ELSE "error"]
    /\ pc' = [pc EXCEPT ![m] = IF io = "ok" THEN "deleting" ELSE "done"]

\* _handle_scam_message up to its first await (lines 77-99): the dataset
\* append, which is synchronous, then the call of message.delete.
HandleScam(m, message, v, io) ==
    /\ csvFile' = LogFlaggedMessage(csvFile, message, v.confidence, v.reason,
                                    JoinedAt(message), now, io)
    /\ appended' = IF io = "ok" THEN appended + 1 ELSE appended
    /\ calls' = [calls EXCEPT ![m] = <<"append", "delete">>]
    /\ results' = [results EXCEPT ![m].append = IF io = "ok" THEN "ok" ELSE "error"]
    /\ pc' = [pc EXCEPT ![m] = "deleting"]

\* The handler ends with no effect (an early return, a clean verdict, or an
\* exception of detect caught at line 66).
EndQuietly(m) ==
    /\ pc' = [pc EXCEPT ![m] = "done"]
    /\ UNCHANGED <<calls, results, csvFile, appended>>

\* Mutant: no try around detect, its exception leaves the handler.
M_Detect(m, message, v, io) ==
    /\ verdict' = [verdict EXCEPT ![m] = v]
    /\ IF v.kind = "scam" THEN HandleScam(m, message, v, io)
       ELSE IF v.kind = "raised"
       THEN pc' = [pc EXCEPT ![m] = "raised"] /\ UNCHANGED <<calls, results, csvFile, appended>>
       ELSE EndQuietly(m)

\* Mutant: the response runs on every verdict the detector returns.
M_DetectNoBranch(m, message, v, io) ==
    /\ verdict' = [verdict EXCEPT ![m] = v]
    /\ IF v.kind \in {"scam", "clean"} THEN HandleScam(m, message, v, io)
       ELSE EndQuietly(m)

\* The try block of on_message (lines 54-67) for verdict v.
Detect(m, message, v, io) ==
    /\ verdict' = [verdict EXCEPT ![m] = v]
    /\ IF v.kind = "scam" THEN HandleScam(m, message, v, io) ELSE EndQuietly(m)

\* on_message (lines 31-67) for the m-th message delivered, up to the first
\* await of its handler. Messages are delivered in the order of their ids.
OnMessage(m, content, author, v, io) ==
    /\ pc[m] = "idle"
    /\ \A k \in Msgs : k < m => pc[k] # "idle"
    /\ LET message == Message(m, content, author)
       IN  /\ msg' = [msg EXCEPT ![m] = message]
           /\ IF Ignored(message)
              THEN EndQuietly(m) /\ UNCHANGED verdict
              ELSE Detect(m, message, v, io)
    /\ UNCHANGED <<auditMsg, logChannel, modRole, dstats, statsAt, CSV_LOCK, writers, statsVars>>

\* Mutant: the direct message is started and not awaited, _send_log follows
\* at once.
M_DeleteSucceeded(m) ==
    IF msg[m].guild.present
    THEN SendLog(m, [calls EXCEPT ![m] = Append(@, "dm")],
                 [results EXCEPT ![m].delete = "ok"])
    ELSE SendLog(m, calls, [results EXCEPT ![m].delete = "ok", ![m].dm = "error"])

\* _send_user_notification up to its await (lines 117-157), after a delete
\* that succeeded: without a guild, guild.name raises, the exception is
\* caught (line 165) and _send_log follows at once.
DeleteSucceeded(m) ==
    IF msg[m].guild.present
    THEN /\ pc' = [pc EXCEPT ![m] = "dm"]
         /\ calls' = [calls EXCEPT ![m] = Append(@, "dm")]
         /\ results' = [results EXCEPT ![m].delete = "ok"]
         /\ auditMsg' = auditMsg
    ELSE SendLog(m, calls, [results EXCEPT ![m].delete = "ok", ![m].dm = "error"])

\* Mutant: only Forbidden aborts, any other exception is taken for success.
M_DeleteFailed(m, outcome) ==
    IF outcome = "forbidden"
    THEN /\ pc' = [pc EXCEPT ![m] = "done"]
         /\ calls' = calls
         /\ results' = [results EXCEPT ![m].delete = outcome]
         /\ auditMsg' = auditMsg
    ELSE /\ pc' = [pc EXCEPT ![m] = "dm"]
         /\ calls' = [calls EXCEPT ![m] = Append(@, "dm")]
         /\ results' = [results EXCEPT ![m].delete = outcome]
         /\ auditMsg' = auditMsg

\* Mutant: a failed delete is tried once more.
M_DeleteFailedRetry(m, outcome) ==
    IF Count(calls[m], "delete") < 2
    THEN /\ pc' = pc
         /\ calls' = [calls EXCEPT ![m] = Append(@, "delete")]
         /\ results' = [results EXCEPT ![m].delete = outcome]
         /\ auditMsg' = auditMsg
    ELSE /\ pc' = [pc EXCEPT ![m] = "done"]
         /\ calls' = calls
         /\ results' = [results EXCEPT ![m].delete = outcome]
         /\ auditMsg' = auditMsg

\* Mutant: only Forbidden is caught, any other exception of delete leaves
\* the handler.
M_DeleteFailedRaise(m, outcome) ==
    /\ pc' = [pc EXCEPT ![m] = IF outcome = "forbidden" THEN "done" ELSE "raised"]
    /\ calls' = calls
    /\ results' = [results EXCEPT ![m].delete = outcome]
    /\ auditMsg' = auditMsg

\* What follows a failed delete (lines 101-106): the handler returns.
DeleteFailed(m, outcome) ==
    /\ pc' = [pc EXCEPT ![m] = "done"]
    /\ calls' = calls
    /\ results' = [results EXCEPT ![m].delete = outcome]
    /\ auditMsg' = auditMsg

\* Mutant: the platform calls are served one message at a time, a call
\* returns only when no earlier message is waiting for one.
M_DeleteReturn(m, outcome) ==
    /\ pc[m] = "deleting"
    /\ \A k \in Msgs : k < m => pc[k] \in {"idle", "done"}
    /\ IF outcome = "ok" THEN DeleteSucceeded(m) ELSE DeleteFailed(m, outcome)
    /\ UNCHANGED <<msg, verdict, logChannel, modRole, dataVars, statsVars>>

\* await message.delete() returns or raises (lines 98-109).
DeleteReturn(m, outcome) ==
    /\ pc[m] = "deleting"
    /\ IF outcome = "ok" THEN DeleteSucceeded(m) ELSE DeleteFailed(m, outcome)
    /\ UNCHANGED <<msg, verdict, logChannel, modRole, dataVars, statsVars>>

\* Mutant: a failed direct message ends the handler.
M_AfterDm(m, outcome) ==
    IF outcome = "ok"
    THEN SendLog(m, calls, [results EXCEPT ![m].dm = outcome])
    ELSE /\ pc' = [pc EXCEPT ![m] = "done"]
         /\ calls' = calls
         /\ results' = [results EXCEPT ![m].dm = outcome]
         /\ auditMsg' = auditMsg

\* What follows await member.send(), whatever its outcome (lines 157-166, 112).
AfterDm(m, outcome) ==
    SendLog(m, calls, [results EXCEPT ![m].dm = outcome])

\* await member.send(embed=embed) returns or raises.
DmReturn(m, outcome) ==
    /\ pc[m] = "dm"
    /\ AfterDm(m, outcome)
    /\ UNCHANGED <<msg, verdict, logChannel, modRole, dataVars, statsVars>>

\* await log_channel.send(...) returns or raises (lines 233-241).
AuditReturn(m, outcome) ==
    /\ pc[m] = "audit"
    /\ pc' = [pc EXCEPT ![m] = "done"]
    /\ results' = [results EXCEPT ![m].audit = outcome]
    /\ UNCHANGED <<msg, verdict, calls, auditMsg, logChannel, modRole, dataVars, statsVars>>

(***************************************************************************)
(* utils/stats_tracker.py: StatsTracker                                    *)
(***************************************************************************)
\* The dict _load_overall_stats builds when there is nothing to load.
DefaultStats(t) ==
    [total_messages_analyzed |-> 0, total_messages_flagged |-> 0,
     total_false_alarms |-> 0, first_started |-> t, last_updated |-> t]

\* data/bot_stats.json: absent, holding a record, corrupt (not valid JSON), or
\* keyless (valid JSON without the counter keys, such as {}).
NoFile      == [kind |-> "absent",  data |-> DefaultStats(0)]
CorruptFile == [kind |-> "corrupt", data |-> DefaultStats(0)]
KeylessFile == [kind |-> "keyless", data |-> DefaultStats(0)]
FileOf(stats) == [kind |-> "record", data |-> stats]

NoTracker == [constructed |-> FALSE, session_messages_analyzed |-> 0,
              session_messages_flagged |-> 0, overall_stats |-> DefaultStats(0)]

\* _save_overall_stats stamps last_updated on the dict before it opens the file.
Stamped(stats, t) == [stats EXCEPT !.last_updated = t]

\* Mutant: every save stamps first_started as well.
M_SavedFile(file, stats, t, io) ==
    IF io = "ok" THEN FileOf([Stamped(stats, t) EXCEPT !.first_started = t])
    ELSE IF io = "fail_write" THEN CorruptFile
    ELSE file

\* The file after _save_overall_stats(stats): io is "ok", "fail_open" (open
\* raised, the file is as it was) or "fail_write" (open truncated the file and
\* json.dump raised). The exception is swallowed.
SavedFile(file, stats, t, io) ==
    IF io = "ok" THEN FileOf(Stamped(stats, t))
    ELSE IF io = "fail_write" THEN CorruptFile
    ELSE file

\* The dict _load_overall_stats returns (lines 40-67). On a file that exists
\* any io but "ok" stands for open or json.load raising.
LoadedStats(file, t, io) ==
    IF file.kind = "absent"
    THEN IF io = "fail_open" THEN DefaultStats(t)     \* mkdir raised
         ELSE Stamped(DefaultStats(t), t)             \* saved (or not), then returned
    ELSE IF file.kind = "record" /\ io = "ok" THEN file.data
    ELSE DefaultStats(t)                              \* open or json.load raised

\* The file after _load_overall_stats: written only when it was absent.
LoadedFile(file, t, io) ==
    IF file.kind = "absent" /\ io # "fail_open"
    THEN SavedFile(file, DefaultStats(t), t, io)
    ELSE file

\* History: the first first_started value that reached the file.
FirstPersisted(file) ==
    IF persisted = -1 /\ file.kind = "record" THEN file.data.first_started
    ELSE persisted

\* __init__ reads the three counters of the loaded dict outside any try
\* (lines 34-36): json.load of a keyless file succeeds, the lookup raises
\* KeyError out of the constructor.
ConstructRaises(file, io) == file.kind = "keyless" /\ io = "ok"

\* StatsTracker() (lines 22-36): a process (re)start. When the constructor
\* raises the process holds no tracker.
Construct(io) ==
    /\ tracker' = IF ConstructRaises(statsFile, io) THEN NoTracker
                  ELSE [constructed |-> TRUE,
                        session_messages_analyzed |-> 0,
                        session_messages_flagged |-> 0,
                        overall_stats |-> LoadedStats(statsFile, now, io)]
    /\ statsFile' = LoadedFile(statsFile, now, io)
    /\ lastOp' = [name |-> "construct", io |-> io,
                  after |-> lastOp.name, afterIo |-> lastOp.io,
                  raised |-> ConstructRaises(statsFile, io)]
    /\ persisted' = FirstPersisted(LoadedFile(statsFile, now, io))
    /\ UNCHANGED <<now, accuracy, threads, pipeVars, dataVars>>

\* Mutant: an increment whose write fails is taken back in memory.
M_SaveTrackerRollback(name, t, io) ==
    /\ statsFile' = SavedFile(statsFile, t.overall_stats, now, io)
    /\ tracker' = IF io = "ok" THEN [t EXCEPT !.overall_stats = Stamped(@, now)]
                  ELSE tracker
    /\ lastOp' = [name |-> name, io |-> io,
                  after |-> lastOp.name, afterIo |-> lastOp.io, raised |-> FALSE]
    /\ persisted' = FirstPersisted(SavedFile(statsFile, t.overall_stats, now, io))
    /\ UNCHANGED <<now, accuracy, threads, pipeVars, dataVars>>

\* The tail shared by the three increments: self._save_overall_stats().
SaveTracker(name, t, io) ==
    /\ statsFile' = SavedFile(statsFile, t.overall_stats, now, io)
    /\ tracker' = [t EXCEPT !.overall_stats = Stamped(@, now)]
    /\ lastOp' = [name |-> name, io |-> io,
                  after |-> lastOp.name, afterIo |-> lastOp.io, raised |-> FALSE]
    /\ persisted' = FirstPersisted(SavedFile(statsFile, t.overall_stats, now, io))
    /\ UNCHANGED <<now, accuracy, threads, pipeVars, dataVars>>

\* increment_analyzed (lines 84-88)
increment_analyzed(io) ==
    /\ tracker.constructed
    /\ tracker.overall_stats.total_messages_analyzed < MaxCount
    /\ SaveTracker("increment_analyzed",
                   [tracker EXCEPT !.session_messages_analyzed = @ + 1,
                                   !.overall_stats.total_messages_analyzed = @ + 1], io)

\* increment_flagged (lines 90-94)
increment_flagged(io) ==
    /\ tracker.constructed
    /\ tracker.overall_stats.total_messages_flagged < MaxCount
    /\ SaveTracker("increment_flagged",
                   [tracker EXCEPT !.session_messages_flagged = @ + 1,
                                   !.overall_stats.total_messages_flagged = @ + 1], io)

\* increment_false_alarm (lines 96-100)
increment_false_alarm(io) ==
    /\ tracker.constructed
    /\ tracker.overall_stats.total_false_alarms < MaxCount
    /\ SaveTracker("increment_false_alarm",
                   [tracker EXCEPT !.overall_stats.total_false_alarms = @ + 1], io)

Threads == 1..NumThreads

NoThreads == [t \in Threads |-> [pc |-> "idle", reg |-> 0, done |-> 0]]

\* increment_false_alarm (lines 96-100) run by thread t with no lock, in the
\* steps the interpreter takes. self.overall_stats['total_false_alarms'] += 1
\* reads the item, adds 1 and writes the item; another thread can run between
\* the read and the write.
FalseAlarmLoad(t) ==
    /\ tracker.constructed
    /\ threads[t].pc = "idle"
    /\ threads[t].done < MaxCount
    /\ threads' = [threads EXCEPT ![t].pc = "loaded",
                                  ![t].reg = tracker.overall_stats.total_false_alarms]
    /\ UNCHANGED <<statsFile, tracker, now, accuracy, lastOp, persisted, pipeVars, dataVars>>

FalseAlarmStore(t) ==
    /\ threads[t].pc = "loaded"
    /\ tracker' = [tracker EXCEPT !.overall_stats.total_false_alarms = threads[t].reg + 1]
    /\ threads' = [threads EXCEPT ![t].pc = "stored"]
    /\ UNCHANGED <<statsFile, now, accuracy, lastOp, persisted, pipeVars, dataVars>>

\* self._save_overall_stats() of thread t, its write succeeding, taken as one
\* step: it dumps the dict as it is when the thread gets there.
FalseAlarmSave(t) ==
    /\ threads[t].pc = "stored"
    /\ statsFile' = SavedFile(statsFile, tracker.overall_stats, now, "ok")
    /\ tracker' = [tracker EXCEPT !.overall_stats = Stamped(@, now)]
    /\ threads' = [threads EXCEPT ![t].pc = "idle", ![t].done = @ + 1]
    /\ persisted' = FirstPersisted(SavedFile(statsFile, tracker.overall_stats, now, "ok"))
    /\ UNCHANGED <<now, accuracy, lastOp, pipeVars, dataVars>>

NoAccuracy == [called |-> FALSE, flagged |-> 0, false_alarms |-> 0, num |-> 0, den |-> 1]

\* Mutant: true_positives is not clamped at 0.
M_get_overall_accuracy_estimate(stats) ==
    LET flagged == stats.total_messages_flagged
        false_alarms == stats.total_false_alarms
    IN  IF flagged = 0 THEN [num |-> 100, den |-> 1]
        ELSE [num |-> (flagged - false_alarms) * 100, den |-> flagged]

\* get_overall_accuracy_estimate (lines 170-182). The float it returns is
\* carried as the fraction num/den it rounds: 100.0 is 100/1, and
\* (true_positives / flagged) * 100 is (true_positives * 100) / flagged.
\* Float division and multiplication round monotonically, so an order
\* between fractions is the order between the floats.
get_overall_accuracy_estimate(stats) ==
    LET flagged == stats.total_messages_flagged
        false_alarms == stats.total_false_alarms
        true_positives == IF flagged - false_alarms < 0 THEN 0
                          ELSE flagged - false_alarms
    IN  IF flagged = 0 THEN [num |-> 100, den |-> 1]
        ELSE [num |-> true_positives * 100, den |-> flagged]

\* A caller reads the estimate of the tracker's present counters.
AccuracyEstimate ==
    /\ tracker.constructed
    /\ LET r == get_overall_accuracy_estimate(tracker.overall_stats)
       IN  accuracy' = [called |-> TRUE,
                        flagged |-> tracker.overall_stats.total_messages_flagged,
                        false_alarms |-> tracker.overall_stats.total_false_alarms,
                        num |-> r.num, den |-> r.den]
    /\ UNCHANGED <<statsFile, tracker, now, threads, lastOp, persisted, pipeVars, dataVars>>

\* Time passes between two reads of datetime.now.
Tick ==
    /\ now < MaxTime + 1
    /\ now' = now + 1
    /\ UNCHANGED <<statsFile, tracker, accuracy, threads, lastOp, persisted, pipeVars, dataVars>>

(***************************************************************************)
(* The dataset store on its own.                                           *)
(***************************************************************************)
\* DatasetLogger() (lines 25-27)
DsInitialize(io) ==
    /\ csvFile' = InitializeCsv(csvFile, io)
    /\ UNCHANGED <<appended, dstats, statsAt, CSV_LOCK, writers, pipeVars, statsVars>>

\* log_flagged_message(message, confidence, reason, user_joined_at)
DsAppend(content, author, v, io) ==
    /\ appended < MaxRows
    /\ LET message == Message(appended + 1, content, author)
       IN  csvFile' = LogFlaggedMessage(csvFile, message, v.confidence, v.reason,
                                        JoinedAt(message), now, io)
    /\ appended' = IF io = "ok" THEN appended + 1 ELSE appended
    /\ UNCHANGED <<dstats, statsAt, CSV_LOCK, writers, pipeVars, statsVars>>

\* get_dataset_stats()
DsStats(io) ==
    /\ dstats' = GetDatasetStats(csvFile, io)
    /\ statsAt' = appended
    /\ UNCHANGED <<csvFile, appended, CSV_LOCK, writers, pipeVars, statsVars>>

(***************************************************************************)
(* log_flagged_message called from several threads.                        *)
(***************************************************************************)
NoWriters == [t \in Threads |-> [pc |-> "idle", done |-> 0, failed |-> 0]]

\* The message thread t logs in its n-th call, each thread logging the
\* messages of an author of its own, and the row built for it (lines 92-108,
\* before the lock is taken).
WriterMessage(t, n) ==
    Message(t + NumThreads * n, <<"win", "!", "nitro">>, [PlainAuthor EXCEPT !.id = 10 + t])

WriterRow(t, n) ==
    Row(WriterMessage(t, n), 99996, <<"ML Detection">>, JoinedAt(WriterMessage(t, n)), now)

\* Cells of a row that reach the file in the first write, the others in the
\* second: a row need not reach the file in one piece.
HeadCells == 6

\* Mutant: the section is entered without waiting for the lock.
M_WriterAcquire(t) ==
    /\ writers[t].pc = "idle"
    /\ writers[t].done + writers[t].failed < MaxCount
    /\ CSV_LOCK' = t
    /\ writers' = [writers EXCEPT ![t].pc = "locked"]
    /\ UNCHANGED <<csvFile, appended, dstats, statsAt, pipeVars, statsVars>>

\* with CSV_LOCK: (line 112) blocks until the lock is free.
WriterAcquire(t) ==
    /\ writers[t].pc = "idle"
    /\ writers[t].done + writers[t].failed < MaxCount
    /\ CSV_LOCK = 0
    /\ CSV_LOCK' = t
    /\ writers' = [writers EXCEPT ![t].pc = "locked"]
    /\ UNCHANGED <<csvFile, appended, dstats, statsAt, pipeVars, statsVars>>

\* open(FLAGGED_MESSAGES_CSV, 'a') (line 114). When it raises, the with
\* statement releases the lock and the except of line 124 ends the call.
WriterOpen(t, io) ==
    /\ writers[t].pc = "locked"
    /\ IF io = "ok"
       THEN /\ writers' = [writers EXCEPT ![t].pc = "open"]
            /\ csvFile' = [csvFile EXCEPT !.exists = TRUE]
            /\ UNCHANGED CSV_LOCK
       ELSE /\ writers' = [writers EXCEPT ![t].pc = "idle", ![t].failed = @ + 1]
            /\ CSV_LOCK' = IF CSV_LOCK = t THEN 0 ELSE CSV_LOCK
            /\ UNCHANGED csvFile
    /\ UNCHANGED <<appended, dstats, statsAt, pipeVars, statsVars>>

\* writer.writerow(row) (line 116): the first cells go to the end of the file.
WriterWriteHead(t) ==
    /\ writers[t].pc = "open"
    /\ csvFile' = [csvFile EXCEPT
                     !.rows = Append(@, SubSeq(WriterRow(t, writers[t].done + writers[t].failed),
                                               1, HeadCells))]
    /\ writers' = [writers EXCEPT ![t].pc = "half"]
    /\ UNCHANGED <<appended, dstats, statsAt, CSV_LOCK, pipeVars, statsVars>>

\* The other cells and the line end go to the end of the file, which is its
\* last line.
WriterWriteRest(t) ==
    /\ writers[t].pc = "half"
    /\ csvFile' = [csvFile EXCEPT
                     !.rows[Len(csvFile.rows)] =
                         @ \o SubSeq(WriterRow(t, writers[t].done + writers[t].failed),
                                     HeadCells + 1, 13)]
    /\ writers' = [writers EXCEPT ![t].pc = "written"]
    /\ UNCHANGED <<appended, dstats, statsAt, CSV_LOCK, pipeVars, statsVars>>

\* The file is closed and the with statement releases the lock (line 118).
WriterRelease(t) ==
    /\ writers[t].pc = "written"
    /\ CSV_LOCK' = IF CSV_LOCK = t THEN 0 ELSE CSV_LOCK
    /\ writers' = [writers EXCEPT ![t].pc = "idle", ![t].done = @ + 1]
    /\ appended' = appended + 1
    /\ UNCHANGED <<csvFile, dstats, statsAt, pipeVars, statsVars>>

(***************************************************************************)
(* Specifications.                                                         *)
(***************************************************************************)
\* Texts delivered to the pipeline: a command and a text that is none.
PipeContents == {c \in Contents : c # <<>>}

IoOutcomes   == {"ok", "fail_open", "fail_write"}
CallOutcomes == {"ok", "forbidden", "error"}
ScamVerdicts == {v \in Verdicts : v.kind = "scam"}

PipeInit ==
    /\ pc = [m \in Msgs |-> "idle"]
    /\ msg = [m \in Msgs |-> NoMsg]
    /\ verdict = [m \in Msgs |-> NoVerdict]
    /\ calls = [m \in Msgs |-> <<>>]
    /\ results = [m \in Msgs |-> NoResults]
    /\ auditMsg = [m \in Msgs |-> NoAudit]

DataInit ==
    /\ appended = 0
    /\ dstats = NoStats
    /\ statsAt = 0
    /\ CSV_LOCK = 0
    /\ writers = NoWriters

StatsInit ==
    /\ statsFile = NoFile
    /\ tracker = NoTracker
    /\ now = 1
    /\ accuracy = NoAccuracy
    /\ threads = NoThreads
    /\ lastOp = [name |-> "none", io |-> "ok", after |-> "none", afterIo |-> "ok",
                 raised |-> FALSE]
    /\ persisted = -1

\* The pipeline: the cog is constructed (its DatasetLogger initialised the
\* file), the tracker of the process is fresh. The moderator role is looked
\* up only once the log channel resolved.
Init ==
    /\ PipeInit
    /\ logChannel \in BOOLEAN
    /\ modRole \in {r \in BOOLEAN : r => logChannel}
    /\ DataInit
    /\ csvFile = InitializeCsv(Absent, "ok")
    /\ statsFile = LoadedFile(NoFile, 1, "ok")
    /\ tracker = [NoTracker EXCEPT !.constructed = TRUE,
                                   !.overall_stats = LoadedStats(NoFile, 1, "ok")]
    /\ now = 1
    /\ accuracy = NoAccuracy
    /\ threads = NoThreads
    /\ lastOp = [name |-> "construct", io |-> "ok", after |-> "none", afterIo |-> "ok",
                 raised |-> FALSE]
    /\ persisted = 1

Next ==
    \/ \E m \in Msgs, content \in PipeContents, author \in Authors,
          v \in Verdicts, io \in {"ok", "fail_open"} :
            OnMessage(m, content, author, v, io)
    \/ \E m \in Msgs, outcome \in CallOutcomes : DeleteReturn(m, outcome)
    \/ \E m \in Msgs, outcome \in CallOutcomes : DmReturn(m, outcome)
    \/ \E m \in Msgs, outcome \in {"ok", "error"} : AuditReturn(m, outcome)

Spec == Init /\ [][Next]_vars

\* The store after its first DatasetLogger() on a fresh file system, whose
\* _initialize_csv succeeded or failed.
DatasetInit ==
    /\ PipeInit
    /\ logChannel = TRUE
    /\ modRole = TRUE
    /\ DataInit
    /\ csvFile \in {InitializeCsv(Absent, io) : io \in IoOutcomes}
    /\ StatsInit

DatasetNext ==
    \/ \E io \in IoOutcomes : DsInitialize(io)
    \/ \E content \in Contents, author \in {PlainAuthor, UserAuthor},
          v \in ScamVerdicts, io \in {"ok", "fail_open"} :
            DsAppend(content, author, v, io)
    \/ \E io \in {"ok", "fail_open"} : DsStats(io)

DatasetSpec == DatasetInit /\ [][DatasetNext]_vars

TrackerInit ==
    /\ PipeInit
    /\ logChannel = TRUE
    /\ modRole = TRUE
    /\ DataInit
    /\ csvFile = Absent
    /\ StatsInit

StatsNext ==
    \/ \E io \in IoOutcomes : Construct(io)
    \/ \E io \in IoOutcomes : increment_analyzed(io)
    \/ \E io \in IoOutcomes : increment_flagged(io)
    \/ \E io \in IoOutcomes : increment_false_alarm(io)
    \/ Tick

StatsSpec == TrackerInit /\ [][StatsNext]_vars

\* The states in which a starting process can find data/bot_stats.json.
FileStates == {NoFile, CorruptFile, KeylessFile, FileOf(DefaultStats(1))}

\* The tracker started on any file the environment left behind.
FileStatesInit ==
    /\ PipeInit
    /\ logChannel = TRUE
    /\ modRole = TRUE
    /\ DataInit
    /\ csvFile = Absent
    /\ statsFile \in FileStates
    /\ tracker = NoTracker
    /\ now = 1
    /\ accuracy = NoAccuracy
    /\ threads = NoThreads
    /\ lastOp = [name |-> "none", io |-> "ok", after |-> "none", afterIo |-> "ok",
                 raised |-> FALSE]
    /\ persisted = IF statsFile.kind = "record" THEN statsFile.data.first_started ELSE -1

\* A tracker holding any counters up to MaxTotal, as loaded from a record.
AccuracyInit ==
    /\ PipeInit
    /\ logChannel = TRUE
    /\ modRole = TRUE
    /\ DataInit
    /\ csvFile = Absent
    /\ \E flagged \in 0..MaxTotal, false_alarms \in 0..MaxTotal :
         LET stats == [DefaultStats(1) EXCEPT !.total_messages_analyzed = MaxTotal,
                                              !.total_messages_flagged = flagged,
                                              !.total_false_alarms = false_alarms]
         IN  /\ statsFile = FileOf(stats)
             /\ tracker = [NoTracker EXCEPT !.constructed = TRUE,
                                             !.overall_stats = LoadedStats(FileOf(stats), 1, "ok")]
    /\ now = 1
    /\ accuracy = NoAccuracy
    /\ threads = NoThreads
    /\ lastOp = [name |-> "construct", io |-> "ok", after |-> "none", afterIo |-> "ok",
                 raised |-> FALSE]
    /\ persisted = 1

AccuracyNext == AccuracyEstimate

AccuracySpec == AccuracyInit /\ [][AccuracyNext]_vars

\* One constructed tracker shared by the threads of a process.
RaceInit ==
    /\ PipeInit
    /\ logChannel = TRUE
    /\ modRole = TRUE
    /\ DataInit
    /\ csvFile = Absent
    /\ statsFile = LoadedFile(NoFile, 1, "ok")
    /\ tracker = [NoTracker EXCEPT !.constructed = TRUE,
                                   !.overall_stats = LoadedStats(NoFile, 1, "ok")]
    /\ now = 1
    /\ accuracy = NoAccuracy
    /\ threads = NoThreads
    /\ lastOp = [name |-> "construct", io |-> "ok", after |-> "none", afterIo |-> "ok",
                 raised |-> FALSE]
    /\ persisted = 1

RaceNext ==
    \/ \E t \in Threads : FalseAlarmLoad(t)
    \/ \E t \in Threads : FalseAlarmStore(t)
    \/ \E t \in Threads : FalseAlarmSave(t)
    \/ Tick

RaceSpec == RaceInit /\ [][RaceNext]_vars

\* Threads of one process appending to the file its DatasetLogger initialised.
LockInit ==
    /\ PipeInit
    /\ logChannel = TRUE
    /\ modRole = TRUE
    /\ DataInit
    /\ csvFile = InitializeCsv(Absent, "ok")
    /\ StatsInit

LockNext ==
    \/ \E t \in Threads : WriterAcquire(t)
    \/ \E t \in Threads, io \in {"ok", "fail_open"} : WriterOpen(t, io)
    \/ \E t \in Threads : WriterWriteHead(t)
    \/ \E t \in Threads : WriterWriteRest(t)
    \/ \E t \in Threads : WriterRelease(t)

LockSpec == LockInit /\ [][LockNext]_vars

\* The message whose platform calls may never return: the first one delivered.
HungMsg == CHOOSE m \in Msgs : \A k \in Msgs : m <= k

\* The cog with its log channel and moderator role resolving.
HangInit ==
    /\ Init
    /\ logChannel
    /\ modRole

\* The pipeline on texts of a non-exempt member, flagged or not, the dataset
\* append succeeding.
HangNext ==
    \/ \E m \in Msgs, v \in Verdicts :
            OnMessage(m, <<"win", "!", "nitro">>, PlainAuthor, v, "ok")
    \/ \E m \in Msgs, outcome \in CallOutcomes : DeleteReturn(m, outcome)
    \/ \E m \in Msgs, outcome \in CallOutcomes : DmReturn(m, outcome)
    \/ \E m \in Msgs, outcome \in {"ok", "error"} : AuditReturn(m, outcome)

\* The event loop resumes a handler whose awaited call has returned or raised;
\* the platform answers the calls of every message but HungMsg, whose calls
\* may stay unanswered for ever.
HangFairness ==
    \A m \in Msgs \ {HungMsg} :
        /\ WF_vars(\E outcome \in CallOutcomes : DeleteReturn(m, outcome))
        /\ WF_vars(\E outcome \in CallOutcomes : DmReturn(m, outcome))
        /\ WF_vars(\E outcome \in {"ok", "error"} : AuditReturn(m, outcome))

HangSpec == HangInit /\ [][HangNext]_vars /\ HangFairness

FileStatesSpec == FileStatesInit /\ [][StatsNext]_vars

(***************************************************************************)
(* Properties.                                                             *)
(***************************************************************************)
Before(seq, x, y) ==
    \A j \in 1..Len(seq) : seq[j] = y => \E i \in 1..(j - 1) : seq[i] = x

\* The rows of the dataset file that carry message m's id (column 13).
RowsOf(m) == {i \in 1..Len(csvFile.rows) : csvFile.rows[i][13] = Str(m)}

\* Row i of the file carries the identity of message m and the detector's
\* confidence (four decimals) and reason.
RowMatches(i, m) ==
    LET row == csvFile.rows[i]
    IN  /\ Len(row) = 13
        /\ row[2] = Str(msg[m].author.id)
        /\ row[3] = msg[m].author.name
        /\ row[5] = (IF msg[m].author.member THEN <<"7", "7">> ELSE <<"DM">>)
        /\ row[9] = msg[m].content
        /\ row[10] \in { <<"1", ".", "0", "0", "0", "0">>, <<"0", ".", "8", "5", "0", "0">> }
        /\ (row[10] = <<"1", ".", "0", "0", "0", "0">>) = (verdict[m].confidence = 99996)
        /\ row[11] = verdict[m].reason
        /\ row[13] = Str(msg[m].id)

\* C1 as stated: given a positive verdict for a message, the dataset store
\* holds exactly one record of that message, matching it, and the append came
\* before the call of delete.
C1_ExactlyOneRecord ==
    \A m \in Msgs : verdict[m].kind = "scam" =>
        /\ Cardinality(RowsOf(m)) = 1
        /\ \A i \in RowsOf(m) : RowMatches(i, m)
        /\ Before(calls[m], "append", "delete")

\* C1 amended: given a positive verdict, the append is attempted exactly once
\* and has returned before delete is called; the store holds exactly one
\* record of the message, matching it, when the append succeeded and none
\* when it failed (the failure is swallowed).
C1_AppendBeforeDelete ==
    \A m \in Msgs : verdict[m].kind = "scam" =>
        /\ Count(calls[m], "append") = 1
        /\ Count(calls[m], "delete") = 1
        /\ Before(calls[m], "append", "delete")
        /\ results[m].append \in {"ok", "error"}
        /\ Cardinality(RowsOf(m)) = (IF results[m].append = "ok" THEN 1 ELSE 0)
        /\ \A i \in RowsOf(m) : RowMatches(i, m)

C1_Witness ==
    \E m \in Msgs :
        /\ verdict[m].kind = "scam"
        /\ verdict[m].confidence = 99996
        /\ calls[m] = <<"append", "delete">>
        /\ \E i \in RowsOf(m) : csvFile.rows[i][10] = <<"1", ".", "0", "0", "0", "0">>

\* C2: if the delete of a flagged message failed (Forbidden or any other
\* error), no direct message and no audit message is ever sent for it: the
\* handler has ended without either call.
C2_DeleteFailureAborts ==
    \A m \in Msgs : results[m].delete \in {"forbidden", "error"} =>
        /\ pc[m] = "done"
        /\ Count(calls[m], "dm") = 0
        /\ Count(calls[m], "audit") = 0
        /\ auditMsg[m] = NoAudit
        /\ results[m].dm = "none" /\ results[m].audit = "none"

C2_Witness ==
    \E m \in Msgs :
        /\ results[m].delete = "error"
        /\ pc[m] = "done"
        /\ calls[m] = <<"append", "delete">>

\* The audit message of m, from the message, the verdict and the guild's
\* moderator role alone.
C3_Audit(m) ==
    [sent |-> TRUE,
     content |-> IF modRole THEN <<"@mods", "Spam detected!">> ELSE <<"Spam detected!">>,
     user |-> msg[m].author.name,
     user_id |-> Str(msg[m].author.id),
     joined |-> JoinedAt(msg[m]),
     method |-> verdict[m].reason,
     confidence |-> IF verdict[m].confidence = 99996
                    THEN <<"1", "0", "0", ".", "0", "0", "%">>
                    ELSE <<"8", "5", ".", "0", "0", "%">>,
     channel |-> <<"general">>,
     message_sent |-> FmtTime(m),
     detected_at |-> FmtTime(now),
     excerpt |-> msg[m].content,
     footer |-> <<"User notified via DM | Logged to training dataset">>]

C4_ExemptSkipsDetection ==
    [][\A m \in Msgs :
        (pc[m] = "idle" /\ pc'[m] # "idle"
            /\ msg'[m].author.roles \cap {"Admin", "Moderator", "executive", "chat revive ping"} # {})
        => /\ verdict'[m] = NoVerdict
           /\ pc'[m] = "done"
           /\ calls'[m] = <<>>
           /\ tracker' = tracker
           /\ statsFile' = statsFile]_vars

C4_Witness ==
    \E m \in Msgs :
        /\ pc[m] = "done"
        /\ "Moderator" \in msg[m].author.roles
        /\ ~msg[m].author.bot
        /\ msg[m].content = <<"win", "!", "nitro">>
        /\ verdict[m] = NoVerdict

\* C5: every message that reaches detection raises the analyzed counters
\* (session and aggregate) by exactly 1, and the flagged counters by 1 on a
\* positive verdict and by 0 otherwise.
C5_CountersFollowDetection ==
    [][\A m \in Msgs :
        (verdict[m].kind = "none" /\ verdict'[m].kind # "none")
        => LET f == IF verdict'[m].kind = "scam" THEN 1 ELSE 0
           IN  /\ tracker'.session_messages_analyzed = tracker.session_messages_analyzed + 1
               /\ tracker'.overall_stats.total_messages_analyzed
                      = tracker.overall_stats.total_messages_analyzed + 1
               /\ tracker'.session_messages_flagged = tracker.session_messages_flagged + f
               /\ tracker'.overall_stats.total_messages_flagged
                      = tracker.overall_stats.total_messages_flagged + f]_vars

\* No step of m's response failed: append, delete, direct message, channel
\* resolution, audit send.
C6_NoFailure(m) ==
    /\ results[m].append = "ok"
    /\ results[m].delete = "ok"
    /\ results[m].dm = "ok"
    /\ logChannel
    /\ results[m].audit # "error"

\* C6: for one flagged message each of the four effects happens at most
\* once whatever fails; when nothing fails and the handler has ended each
\* happened exactly once, in order, and the audit message mentions the
\* moderator role when that role exists.
C6_EffectsAtMostOnce ==
    \A m \in Msgs :
        /\ \A e \in {"append", "delete", "dm", "audit"} : Count(calls[m], e) <= 1
        /\ Cardinality(RowsOf(m)) <= 1
        /\ (verdict[m].kind = "scam" /\ pc[m] = "done" /\ C6_NoFailure(m)) =>
               /\ calls[m] = <<"append", "delete", "dm", "audit">>
               /\ Cardinality(RowsOf(m)) = 1
               /\ auditMsg[m].sent
               /\ (modRole => auditMsg[m].content = <<"@mods", "Spam detected!">>)
               /\ (~modRole => auditMsg[m].content = <<"Spam detected!">>)

C6_Witness ==
    \E m \in Msgs :
        /\ pc[m] = "done"
        /\ C6_NoFailure(m)
        /\ results[m].audit = "ok"
        /\ calls[m] = <<"append", "delete", "dm", "audit">>
        /\ modRole
        /\ auditMsg[m].content[1] = "@mods"

\* C7: when the detector raises for a message, the exception is caught and
\* the message is treated as not scam: the handler ends normally with no
\* dataset row, no delete, no direct message and no audit message.
C7_DetectorFailureIsClean ==
    \A m \in Msgs : verdict[m].kind = "raised" =>
        /\ pc[m] = "done"
        /\ calls[m] = <<>>
        /\ results[m] = NoResults
        /\ auditMsg[m] = NoAudit
        /\ RowsOf(m) = {}

C7_Witness ==
    \E m \in Msgs :
        /\ verdict[m].kind = "raised"
        /\ pc[m] = "done"
        /\ \E k \in Msgs : k # m /\ verdict[k].kind = "scam" /\ RowsOf(k) # {}

\* Sum of the counts of a detection-method breakdown.
RECURSIVE SumCounts(_, _)
SumCounts(f, keys) ==
    IF keys = {} THEN 0
    ELSE LET k == CHOOSE x \in keys : TRUE
         IN  f[k] + SumCounts(f, keys \ {k})

\* C8: on a store that started fresh, after N successful appends
\* get_dataset_stats reports total_messages = N and a breakdown whose counts
\* sum to N.
C8_StatsRoundTrip ==
    dstats.exists =>
        /\ dstats.total_messages = statsAt
        /\ SumCounts(dstats.detection_methods, DOMAIN dstats.detection_methods) = statsAt

\* C9: when the last tracker operation was an increment whose write
\* succeeded, a restart that reads the file yields the same three aggregate
\* counters and the same first_started as before the restart.
C9_ReloadKeepsCounters ==
    [][(/\ lastOp.name \in {"increment_analyzed", "increment_flagged", "increment_false_alarm"}
        /\ lastOp.io = "ok"
        /\ lastOp'.name = "construct"
        /\ lastOp'.io = "ok")
        => LET old == tracker.overall_stats
               new == tracker'.overall_stats
           IN  /\ new.total_messages_analyzed = old.total_messages_analyzed
               /\ new.total_messages_flagged = old.total_messages_flagged
               /\ new.total_false_alarms = old.total_false_alarms
               /\ new.first_started = old.first_started
               /\ statsFile' = statsFile]_vars

C9_Witness ==
    /\ lastOp.name = "construct"
    /\ lastOp.io = "ok"
    /\ lastOp.after = "increment_false_alarm"
    /\ lastOp.afterIo = "ok"
    /\ tracker.session_messages_analyzed = 0
    /\ tracker.overall_stats.total_messages_analyzed = 2
    /\ tracker.overall_stats.total_messages_flagged = 1
    /\ tracker.overall_stats.total_false_alarms = 1
    /\ tracker.overall_stats.first_started < now
    /\ statsFile = FileOf(tracker.overall_stats)

\* C10: once a first_started value has reached the stats file, whatever
\* record the file holds later carries that same first_started.
C10_FirstStartedNeverChanges ==
    statsFile.kind = "record" => statsFile.data.first_started = persisted

\* C11: the persisted aggregate counters never decrease: a record the stats
\* file holds after a step carries counters at least those of the record it
\* held before the step.
C11_PersistedCountersMonotonic ==
    [][(statsFile.kind = "record" /\ statsFile'.kind = "record") =>
        /\ statsFile'.data.total_messages_analyzed >= statsFile.data.total_messages_analyzed
        /\ statsFile'.data.total_messages_flagged >= statsFile.data.total_messages_flagged
        /\ statsFile'.data.total_false_alarms >= statsFile.data.total_false_alarms]_vars

\* C12: after any sequence of increments, in any order, from a fresh record,
\* total_messages_flagged <= total_messages_analyzed, in memory and on file.
C12_FlaggedAtMostAnalyzed ==
    /\ tracker.overall_stats.total_messages_flagged
           <= tracker.overall_stats.total_messages_analyzed
    /\ statsFile.kind = "record" =>
           statsFile.data.total_messages_flagged <= statsFile.data.total_messages_analyzed

\* C13: no StatsTracker operation (construction, increment_analyzed,
\* increment_flagged, increment_false_alarm) raises to its caller, whatever the
\* stats file holds: absent, unreadable, unwritable, corrupt or keyless.
C13_NoOperationRaises == ~lastOp.raised

\* C14: whenever the dataset file exists and holds rows, its first row is the
\* 13-column header and the header occurs exactly once, after any sequence of
\* initialisations and appends, an append on an absent file included.
C14_HeaderFirstAndOnce ==
    (csvFile.exists /\ csvFile.rows # <<>>) =>
        /\ csvFile.rows[1] = HeaderRow
        /\ Count(csvFile.rows, HeaderRow) = 1

\* a is an initial part of b.
IsPrefixOf(a, b) == Len(a) <= Len(b) /\ SubSeq(b, 1, Len(a)) = a

\* C15: the dataset store is append-only: across every operation
\* (initialisation, append, get_dataset_stats) the rows of the file before
\* the operation are an initial part of the rows after it, so no appended
\* record is ever modified or removed.
C15_AppendOnly == [][IsPrefixOf(csvFile.rows, csvFile'.rows)]_vars

\* C15 witness: a statistics read happened between two appends and both
\* appended records are in the file behind the header.
C15_Witness ==
    /\ Len(csvFile.rows) = 3
    /\ csvFile.rows[1] = HeaderRow
    /\ appended = 2
    /\ statsAt = 1
    /\ dstats.exists

\* C16: get_overall_accuracy_estimate returns 100 when flagged is 0 and
\* max(flagged - false_alarms, 0) / flagged * 100 when flagged > 0, and the
\* result lies in [0, 100] for all non-negative counters, false_alarms above
\* flagged included.
C16_AccuracyEstimate ==
    accuracy.called =>
        /\ accuracy.den > 0
        /\ accuracy.flagged = 0 => accuracy.num = 100 * accuracy.den
        /\ (accuracy.flagged > 0 /\ accuracy.false_alarms <= accuracy.flagged) =>
               accuracy.num * accuracy.flagged
                   = (accuracy.flagged - accuracy.false_alarms) * 100 * accuracy.den
        /\ (accuracy.flagged > 0 /\ accuracy.false_alarms > accuracy.flagged) =>
               accuracy.num = 0
        /\ 0 <= accuracy.num
        /\ accuracy.num <= 100 * accuracy.den

\* C16 witness: the estimate was taken with more false alarms than flagged
\* messages and came out 0.
C16_Witness ==
    /\ accuracy.called
    /\ accuracy.flagged > 0
    /\ accuracy.false_alarms > accuracy.flagged
    /\ accuracy.num = 0

\* The handler of message m ended without detection and without any effect.
NoResponse(m) ==
    /\ pc[m] = "done"
    /\ verdict[m] = NoVerdict
    /\ calls[m] = <<>>
    /\ results[m] = NoResults
    /\ ~auditMsg[m].sent
    /\ RowsOf(m) = {}

\* C17: a message authored by a bot account, the system's own included, never
\* reaches the detector and starts no response sequence, also when its text is
\* the flagged text an audit entry quotes: no feedback loop.
C17_BotMessagesIgnored ==
    \A m \in Msgs : (pc[m] # "idle" /\ msg[m].author.bot) => NoResponse(m)

\* C17 witness: an audit entry went out and a bot-authored message carrying
\* the text it quotes was delivered and handled.
C17_Witness ==
    \E k, m \in Msgs :
        /\ k < m
        /\ auditMsg[k].sent
        /\ results[k].audit = "ok"
        /\ msg[m].author.bot
        /\ msg[m].content = auditMsg[k].excerpt
        /\ pc[m] = "done"

\* C18: a message whose text begins with the command prefix "!" skips
\* detection: no detector call, no append, delete, direct message or audit.
C18_CommandSkipsDetection ==
    \A m \in Msgs :
        (pc[m] # "idle" /\ msg[m].content # <<>> /\ msg[m].content[1] = "!")
            => NoResponse(m)

\* C18 witness: a command of an ordinary member was handled.
C18_Witness ==
    \E m \in Msgs :
        /\ pc[m] = "done"
        /\ msg[m].content = <<"!", "check">>
        /\ ~msg[m].author.bot
        /\ msg[m].author.roles = {"Member"}

\* C19: however the response sequences of different messages interleave, the
\* platform calls of one message occur in the order append, delete, direct
\* message, audit, and each starts only when the one before it has returned.
C19_StepsOrderedPerMessage ==
    \A m \in Msgs :
        /\ IsPrefixOf(calls[m], <<"append", "delete", "dm", "audit">>)
        /\ Count(calls[m], "delete") = 1 => results[m].append # "none"
        /\ Count(calls[m], "dm") = 1 => results[m].delete = "ok"
        /\ Count(calls[m], "audit") = 1 => results[m].dm # "none"

\* C19 witness: the later message ran all four steps while the earlier one
\* was still waiting for its delete to return.
C19_Witness ==
    \E k, m \in Msgs :
        /\ k < m
        /\ pc[k] = "deleting"
        /\ calls[k] = <<"append", "delete">>
        /\ pc[m] = "done"
        /\ calls[m] = <<"append", "delete", "dm", "audit">>
        /\ results[m].audit = "ok"

\* The increment_false_alarm calls completed by the threads 1..n.
RECURSIVE Completed(_)
Completed(n) == IF n = 0 THEN 0 ELSE threads[n].done + Completed(n - 1)

\* C20: when increments of one counter race on the same tracker, none is
\* lost: once k calls have completed and none is under way, the counter in
\* memory and the counter on file have both grown by exactly k.
C20_NoLostUpdate ==
    (\A t \in Threads : threads[t].pc = "idle") =>
        /\ tracker.overall_stats.total_false_alarms = Completed(NumThreads)
        /\ statsFile.kind = "record"
        /\ statsFile.data.total_false_alarms = Completed(NumThreads)

\* C22: no failure of a step (detection, dataset append, delete, direct
\* message, channel resolution, audit send) leaves the handler: the handler
\* is only ever idle, at one of its awaits, or ended, and a failed step leaves
\* it at the place the code continues from or ended.
C22_NoFailureEscapes ==
    \A m \in Msgs :
        /\ pc[m] \in {"idle", "deleting", "dm", "audit", "done"}
        /\ verdict[m].kind = "raised" => pc[m] = "done"
        /\ results[m].append = "error" => pc[m] \in {"deleting", "dm", "audit", "done"}
        /\ results[m].delete \in {"forbidden", "error"} => pc[m] = "done"
        /\ results[m].dm \in {"forbidden", "error"} => pc[m] \in {"audit", "done"}
        /\ results[m].audit = "error" => pc[m] = "done"

\* C22 witness: the delete of one message failed and its handler ended; the
\* message delivered after it went through the whole response sequence.
C22_Witness ==
    \E k, m \in Msgs :
        /\ k < m
        /\ results[k].delete = "error"
        /\ pc[k] = "done"
        /\ pc[m] = "done"
        /\ calls[m] = <<"append", "delete", "dm", "audit">>
        /\ results[m] = [append |-> "ok", delete |-> "ok", dm |-> "ok", audit |-> "ok"]

\* C24: a failed dataset append is swallowed and the response goes on: the
\* delete is called after it, and once the delete succeeded the direct message
\* and the audit send follow as they do after a successful append.
C24_AppendFailureContinues ==
    \A m \in Msgs :
        results[m].append = "error" =>
            /\ Count(calls[m], "delete") = 1
            /\ (results[m].delete = "ok" /\ msg[m].guild.present)
                   => Count(calls[m], "dm") = 1
            /\ (results[m].dm # "none" /\ msg[m].guild.present /\ logChannel)
                   => Count(calls[m], "audit") = 1

\* C24 witness: the append failed and delete, direct message and audit send
\* all went through.
C24_Witness ==
    \E m \in Msgs :
        /\ results[m] = [append |-> "error", delete |-> "ok", dm |-> "ok", audit |-> "ok"]
        /\ calls[m] = <<"append", "delete", "dm", "audit">>
        /\ RowsOf(m) = {}
        /\ pc[m] = "done"

\* C26: a message that reached the detector and got a negative verdict has no
\* response effect: no dataset row, no delete, direct message or audit send,
\* whatever the handlers of other messages are doing.
C26_CleanVerdictNoEffect ==
    \A m \in Msgs :
        verdict[m].kind = "clean" =>
            /\ pc[m] = "done"
            /\ calls[m] = <<>>
            /\ results[m] = NoResults
            /\ ~auditMsg[m].sent
            /\ RowsOf(m) = {}

\* C26 witness: a clean message was handled while the response to an earlier
\* flagged message was waiting for its direct message to return.
C26_Witness ==
    \E k, m \in Msgs :
        /\ k < m
        /\ pc[k] = "dm"
        /\ verdict[m].kind = "clean"
        /\ pc[m] = "done"

\* The three aggregate counters of a stats dict.
Counters(stats) ==
    <<stats.total_messages_analyzed, stats.total_messages_flagged, stats.total_false_alarms>>

\* The counters an increment of the given name leaves after the counters c.
Incremented(name, c) ==
    IF name = "increment_analyzed" THEN <<c[1] + 1, c[2], c[3]>>
    ELSE IF name = "increment_flagged" THEN <<c[1], c[2] + 1, c[3]>>
    ELSE <<c[1], c[2], c[3] + 1>>

\* C25: an increment raises its counter in memory whether or not its write of
\* the stats file succeeds, and after an increment whose write succeeded the
\* counters on file equal the counters in memory, earlier unwritten
\* increments included. (A step that leaves the clock alone and ends with an
\* increment as the last operation is that increment.)
C25_FailedWriteKeepsMemory ==
    [][(/\ now' = now
        /\ lastOp'.name \in {"increment_analyzed", "increment_flagged",
                              "increment_false_alarm"})
        => /\ Counters(tracker'.overall_stats)
                 = Incremented(lastOp'.name, Counters(tracker.overall_stats))
           /\ lastOp'.io = "ok" =>
                 /\ statsFile'.kind = "record"
                 /\ Counters(statsFile'.data) = Counters(tracker'.overall_stats)]_vars

\* C25 witness: an increment whose write failed was followed by one whose
\* write succeeded, and the file holds both.
C25_Witness ==
    /\ lastOp.after = "increment_analyzed"
    /\ lastOp.afterIo \in {"fail_open", "fail_write"}
    /\ lastOp.name = "increment_analyzed"
    /\ lastOp.io = "ok"
    /\ statsFile.kind = "record"
    /\ statsFile.data.total_messages_analyzed = 2
    /\ tracker.overall_stats.total_messages_analyzed = 2

\* The threads inside the section guarded by CSV_LOCK.
InSection == {t \in Threads : writers[t].pc \in {"locked", "open", "half", "written"}}

\* The row is, whole, the row some call of some thread built.
Intact(row) ==
    /\ Len(row) = 13
    /\ \E t \in Threads, n \in 0..(MaxCount - 1) :
           /\ row[13] = Str(t + NumThreads * n)
           /\ row = WriterRow(t, n)

\* C21: appends are mutually exclusive: at most one log_flagged_message call
\* is between taking the lock and releasing it, the rows in the file are whole
\* rows of single calls (the last one may be under way), every completed
\* append has its row in the file, and the lock is free whenever no call is
\* inside, after failed writes too.
C21_AppendsMutuallyExclusive ==
    /\ Cardinality(InSection) <= 1
    /\ InSection = {} => CSV_LOCK = 0
    /\ \A t \in InSection : CSV_LOCK = t
    /\ \A i \in 2..Len(csvFile.rows) :
           (i < Len(csvFile.rows) \/ \A t \in Threads : writers[t].pc # "half")
               => Intact(csvFile.rows[i])
    /\ \A i, j \in 1..Len(csvFile.rows) : i < j => csvFile.rows[i] # csvFile.rows[j]
    /\ Len(csvFile.rows) =
           1 + appended + Cardinality({t \in Threads : writers[t].pc \in {"half", "written"}})

\* C21 witness: two threads completed an append each, one of them after a
\* call whose open failed; the lock is free and the file holds the header and
\* both rows.
C21_Witness ==
    /\ CSV_LOCK = 0
    /\ \E t, u \in Threads :
           /\ t # u
           /\ writers[t] = [pc |-> "idle", done |-> 1, failed |-> 1]
           /\ writers[u].done = 1
           /\ writers[u].pc = "idle"
    /\ Len(csvFile.rows) = 3
    /\ \A i \in 2..3 : Intact(csvFile.rows[i])

\* C23: when a platform call of one message never returns, only that
\* message's response stalls: every other message delivered to the pipeline is
\* eventually handled to its end, the event loop being fair to their handlers.
C23_HungCallStallsOnlyItsMessage ==
    \A m \in Msgs \ {HungMsg} : (pc[m] # "idle") ~> (pc[m] = "done")

\* C23 witness: the first message is still waiting for its delete to return
\* and a later flagged message has been handled to the end of its audit send.
C23_Witness ==
    \E m \in Msgs \ {HungMsg} :
        /\ pc[HungMsg] = "deleting"
        /\ verdict[m].kind = "scam"
        /\ pc[m] = "done"
        /\ results[m].audit # "none"

====
